---- MODULE Spec2Model ----
(***************************************************************************)
(* Model of cicd-pipeline.js: the CLI entry point, main, runUnitTests,     *)
(* buildDockerImage and deployToK8s, as one process that yields at every   *)
(* await, together with the external collaborators it calls (the git       *)
(* checkout, the test command, the container engine, the registry and the  *)
(* cluster API), whose outcomes are nondeterministic.                      *)
(***************************************************************************)
EXTENDS Integers, Sequences, FiniteSets, TLC

VARIABLES
    pc,            \* where the process is: the call it awaits, or settled / exited
    action,        \* process.argv[2]
    env,           \* process.env: DOCKER_REGISTRY and K8S_NAMESPACE
    checkout,      \* the local repository: [branch, commit]; changed from outside
    branch,        \* main's local `branch`
    bBranch,       \* buildDockerImage's local `branch`
    commit,        \* buildDockerImage's local `commit`
    tag,           \* buildDockerImage's local `tag`
    fullImageName, \* buildDockerImage's local `fullImageName`
    imageName,     \* main's local `imageName` = deployToK8s's parameter
    calls,         \* the external calls of this run, in order: [op, arg, status]
    k8sRequests,   \* the requests of this run to the cluster API: [verb, namespace, body]
    console,       \* what this run printed, in order
    exit,          \* the exit codes of this run's process (at most one)
    pushStream,    \* the progress stream image.push resolved with
    registry,      \* image references present in the registry
    cluster,       \* deployments present in the cluster: [namespace, name, image]
    runs,          \* process invocations so far
    switches       \* changes of the checkout so far

vars == << pc, action, env, checkout, branch, bBranch, commit, tag, fullImageName,
           imageName, calls, k8sRequests, console, exit, pushStream, registry,
           cluster, runs, switches >>

procVars == << branch, bBranch, commit, tag, fullImageName, imageName >>

(* ------------------------------ bounds --------------------------------- *)

MaxRuns == 2
MaxCheckoutChanges == 1

(* ------------------------------ inputs --------------------------------- *)

Undefined == "<undefined>"

Actions == {Undefined, "", "test", "deploy", "build"}
Branches == {"production", "feature-x"}
Commits == {"a1b2c3", "abc123"}
RegistryEnv == {Undefined, "", "reg.example.com"}
NamespaceEnv == {Undefined, "", "staging"}

(* ----------------------- module-level constants ------------------------ *)

\* OrDefault as `a ?? b`: the default for undefined only
OrDefaultNullish(v, d) == IF v = Undefined THEN d ELSE v

\* JavaScript's `a || b` on strings: b when a is undefined or empty
OrDefault(v, d) == IF v \in {Undefined, ""} THEN d ELSE v

DOCKER_REGISTRY == OrDefault(env.DOCKER_REGISTRY, "your-registry.com")
IMAGE_NAME == "legal-app"
K8S_NAMESPACE == OrDefault(env.K8S_NAMESPACE, "default")
K8S_DEPLOYMENT_NAME == "legal-app-deployment"
Replicas == 3
ContainerPort == 3000

(* --------------------------- pure functions ---------------------------- *)

\* `!action`
NoAction(a) == a \in {Undefined, ""}

\* Dispatch with the deploy gate's `&&` written `||`
DispatchOr(a, b) ==
    IF a = "test" THEN "test"
    ELSE IF a = "deploy" \/ b = "production" THEN "deploy"
    ELSE "skip"

\* Dispatch with the production pipeline tested first, for either action
DispatchProductionFirst(a, b) ==
    IF a \in {"test", "deploy"} /\ b = "production" THEN "deploy"
    ELSE IF a = "test" THEN "test"
    ELSE "skip"

\* Dispatch with the final else running the tests instead of skipping
DispatchDefaultTest(a, b) ==
    IF a = "deploy" /\ b = "production" THEN "deploy"
    ELSE IF a = "deploy" THEN "skip"
    ELSE "test"

\* the if / else if / else of main
Dispatch(a, b) ==
    IF a = "test" THEN "test"
    ELSE IF a = "deploy" /\ b = "production" THEN "deploy"
    ELSE "skip"

Tag(b, c) == IF b = "production" THEN "prod-" \o c ELSE "dev-" \o c

FullImageName(t) == DOCKER_REGISTRY \o "/" \o IMAGE_NAME \o ":" \o t

Deployment(image) ==
    [ apiVersion |-> "apps/v1",
      kind |-> "Deployment",
      name |-> K8S_DEPLOYMENT_NAME,
      namespace |-> K8S_NAMESPACE,
      replicas |-> Replicas,
      app |-> "legal-app",
      containerName |-> "legal-app",
      image |-> image,
      containerPort |-> ContainerPort,
      env |-> << [name |-> "RAILS_ENV", value |-> "production"] >> ]

(* ------------------------------ helpers -------------------------------- *)

Call(op, arg) == [op |-> op, arg |-> arg, status |-> "pending"]

\* the pending call (always the last one) returns with `status`
Returned(status) == [calls EXCEPT ![Len(calls)].status = status]

ProcessExit(code) ==
    /\ pc' = "exited"
    /\ exit' = Append(exit, code)

Env == << env, checkout, switches, runs >>

(* ------------------------------- Init ---------------------------------- *)

Init ==
    /\ pc = "start"
    /\ action \in Actions
    /\ env \in [DOCKER_REGISTRY : RegistryEnv, K8S_NAMESPACE : NamespaceEnv]
    /\ checkout \in [branch : Branches, commit : Commits]
    /\ branch = Undefined
    /\ bBranch = Undefined
    /\ commit = Undefined
    /\ tag = Undefined
    /\ fullImageName = Undefined
    /\ imageName = Undefined
    /\ calls = << >>
    /\ k8sRequests = << >>
    /\ console = << >>
    /\ exit = << >>
    /\ pushStream = "none"
    /\ registry = {}
    /\ cluster = {}
    /\ runs = 1
    /\ switches = 0

(* ------------------------- the CLI entry point ------------------------- *)

\* a rejection of main reaches `.catch(console.error)`: it is printed, and the
\* process then ends like a resolved one
MainRejects ==
    /\ pc' = "settled"
    /\ console' = Append(console, "console.error")

\* EntryPoint with the process.exit(1) after the usage message left out
EntryPointNoExit ==
    /\ pc = "start"
    /\ console' = IF NoAction(action) THEN Append(console, "Usage") ELSE console
    /\ pc' = "main.branch"
    /\ calls' = Append(calls, Call("git.branch", "main"))
    /\ UNCHANGED << action, procVars, k8sRequests, exit, pushStream, registry,
                    cluster, Env >>

\* const action = process.argv[2]; if (!action) {usage; exit(1)}; main(action)
\* up to main's first await, of git.branch()
EntryPoint ==
    /\ pc = "start"
    /\ IF NoAction(action)
       THEN /\ console' = Append(console, "Usage")
            /\ ProcessExit(1)
            /\ UNCHANGED calls
       ELSE /\ pc' = "main.branch"
            /\ calls' = Append(calls, Call("git.branch", "main"))
            /\ UNCHANGED << console, exit >>
    /\ UNCHANGED << action, procVars, k8sRequests, pushStream, registry, cluster, Env >>

\* nothing is left to run after main settled: node ends the process, and no
\* exit code was set
ProcessEnds ==
    /\ pc = "settled"
    /\ ProcessExit(0)
    /\ UNCHANGED << action, procVars, calls, k8sRequests, console, pushStream,
                    registry, cluster, Env >>

(* -------------------------------- main --------------------------------- *)

\* git.branch() resolves in main: the dispatch on action and branch, up to the
\* test command being started (execSync), or the skip message
MainBranchResolves ==
    /\ pc = "main.branch"
    /\ branch' = checkout.branch
    /\ IF Dispatch(action, checkout.branch) \in {"test", "deploy"}
       THEN /\ pc' = "test"
            /\ calls' = Append(Returned("ok"), Call("test", "bundle exec rails test"))
            /\ console' = Append(console, "Running Rails unit tests...")
       ELSE /\ pc' = "settled"
            /\ calls' = Returned("ok")
            /\ console' = Append(console, "Skipping deployment")
    /\ UNCHANGED << action, bBranch, commit, tag, fullImageName, imageName,
                    k8sRequests, exit, pushStream, registry, cluster, Env >>

\* git.branch() rejects in main, outside any try
MainBranchRejects ==
    /\ pc = "main.branch"
    /\ calls' = Returned("failed")
    /\ MainRejects
    /\ UNCHANGED << action, procVars, k8sRequests, exit, pushStream, registry,
                    cluster, Env >>

(* ---------------------------- runUnitTests ----------------------------- *)

\* execSync returns: runUnitTests resolves; for `test` main resolves, for
\* `deploy` buildDockerImage runs up to its first await, of git.branch()
TestPasses ==
    /\ pc = "test"
    /\ IF Dispatch(action, branch) = "test"
       THEN /\ pc' = "settled"
            /\ calls' = Returned("ok")
            /\ console' = Append(console, "Unit tests passed")
       ELSE /\ pc' = "build.branch"
            /\ calls' = Append(Returned("ok"), Call("git.branch", "build"))
            /\ console' = console \o << "Unit tests passed", "Building Docker image..." >>
    /\ UNCHANGED << action, procVars, k8sRequests, exit, pushStream, registry,
                    cluster, Env >>

\* TestFails with the process.exit(1) of the catch left out: runUnitTests
\* resolves as after a passed test
TestFailsContinues ==
    /\ pc = "test"
    /\ IF Dispatch(action, branch) = "test"
       THEN /\ pc' = "settled"
            /\ calls' = Returned("failed")
            /\ console' = Append(console, "Unit tests failed")
       ELSE /\ pc' = "build.branch"
            /\ calls' = Append(Returned("failed"), Call("git.branch", "build"))
            /\ console' = console \o << "Unit tests failed", "Building Docker image..." >>
    /\ UNCHANGED << action, procVars, k8sRequests, exit, pushStream, registry,
                    cluster, Env >>

\* TestFails with the test command run again instead of the exit
TestFailsRetries ==
    /\ pc = "test"
    /\ calls' = Append(Returned("failed"), Call("test", "bundle exec rails test"))
    /\ console' = Append(console, "Unit tests failed")
    /\ UNCHANGED << pc, action, procVars, k8sRequests, exit, pushStream, registry,
                    cluster, Env >>

\* execSync throws: the catch prints and exits 1
TestFails ==
    /\ pc = "test"
    /\ calls' = Returned("failed")
    /\ console' = Append(console, "Unit tests failed")
    /\ ProcessExit(1)
    /\ UNCHANGED << action, procVars, k8sRequests, pushStream, registry, cluster, Env >>

(* -------------------------- buildDockerImage --------------------------- *)

BuilderBranchResolves ==
    /\ pc = "build.branch"
    /\ bBranch' = checkout.branch
    /\ pc' = "build.log"
    /\ calls' = Append(Returned("ok"), Call("git.log", "build"))
    /\ UNCHANGED << action, branch, commit, tag, fullImageName, imageName,
                    k8sRequests, console, exit, pushStream, registry, cluster, Env >>

\* the queries of buildDockerImage stand before its try: a rejection rejects
\* buildDockerImage, and main with it
BuilderBranchRejects ==
    /\ pc = "build.branch"
    /\ calls' = Returned("failed")
    /\ MainRejects
    /\ UNCHANGED << action, procVars, k8sRequests, exit, pushStream, registry,
                    cluster, Env >>

\* git.log resolves: tag and fullImageName, then docker.buildImage is awaited
BuilderLogResolves ==
    /\ pc = "build.log"
    /\ commit' = checkout.commit
    /\ tag' = Tag(bBranch, checkout.commit)
    /\ fullImageName' = FullImageName(tag')
    /\ pc' = "build.image"
    /\ calls' = Append(Returned("ok"), Call("docker.buildImage", fullImageName'))
    /\ UNCHANGED << action, branch, bBranch, imageName, k8sRequests, console, exit,
                    pushStream, registry, cluster, Env >>

BuilderLogRejects ==
    /\ pc = "build.log"
    /\ calls' = Returned("failed")
    /\ MainRejects
    /\ UNCHANGED << action, procVars, k8sRequests, exit, pushStream, registry,
                    cluster, Env >>

\* the catch of buildDockerImage
BuildCatch ==
    /\ calls' = Returned("failed")
    /\ console' = Append(console, "Docker build/push failed")
    /\ ProcessExit(1)
    /\ UNCHANGED << action, procVars, k8sRequests, pushStream, registry, cluster, Env >>

\* BuildImageResolves with the progress stream not followed: the push is
\* started as soon as docker.buildImage resolved
BuildImageResolvesNoFollow ==
    /\ pc = "build.image"
    /\ pc' = "push"
    /\ calls' = Append(Returned("ok"), Call("image.push", fullImageName))
    /\ console' = Append(console, "Pushing Docker image...")
    /\ UNCHANGED << action, procVars, k8sRequests, exit, pushStream, registry,
                    cluster, Env >>

\* docker.buildImage resolves with the progress stream, which is then followed
BuildImageResolves ==
    /\ pc = "build.image"
    /\ pc' = "build.follow"
    /\ calls' = Append(Returned("ok"), Call("followProgress", fullImageName))
    /\ UNCHANGED << action, procVars, k8sRequests, console, exit, pushStream,
                    registry, cluster, Env >>

BuildImageRejects ==
    /\ pc = "build.image"
    /\ BuildCatch

\* FollowProgressDone with a callback that settles the promise on error only:
\* the stream ended, and the await of the promise never returns
FollowProgressDoneUnresolved ==
    /\ pc = "build.follow"
    /\ pc' = "build.unresolved"
    /\ calls' = Returned("ok")
    /\ UNCHANGED << action, procVars, k8sRequests, console, exit, pushStream,
                    registry, cluster, Env >>

\* the build's stream ends without error: image.push is awaited
FollowProgressDone ==
    /\ pc = "build.follow"
    /\ pc' = "push"
    /\ calls' = Append(Returned("ok"), Call("image.push", fullImageName))
    /\ console' = Append(console, "Pushing Docker image...")
    /\ UNCHANGED << action, procVars, k8sRequests, exit, pushStream, registry,
                    cluster, Env >>

FollowProgressError ==
    /\ pc = "build.follow"
    /\ BuildCatch

\* PushResolves with the reference derived again from the checkout for the
\* descriptor instead of buildDockerImage's return value being passed on
PushResolvesRecomputed ==
    /\ pc = "push"
    /\ pushStream' = "streaming"
    /\ imageName' = FullImageName(Tag(checkout.branch, checkout.commit))
    /\ k8sRequests' = Append(k8sRequests,
           [verb |-> "create", namespace |-> K8S_NAMESPACE, body |-> Deployment(imageName')])
    /\ pc' = "deploy"
    /\ calls' = Append(Returned("ok"), Call("createNamespacedDeployment", imageName'))
    /\ console' = console \o << "Docker image pushed", "Deploying to Kubernetes..." >>
    /\ UNCHANGED << action, branch, bBranch, commit, tag, fullImageName, exit,
                    registry, cluster, Env >>

\* image.push resolves, with the push's progress stream, which nothing
\* follows: buildDockerImage returns fullImageName, and deployToK8s builds the
\* descriptor and awaits createNamespacedDeployment
PushResolves ==
    /\ pc = "push"
    /\ pushStream' = "streaming"
    /\ imageName' = fullImageName
    /\ k8sRequests' = Append(k8sRequests,
           [verb |-> "create", namespace |-> K8S_NAMESPACE, body |-> Deployment(imageName')])
    /\ pc' = "deploy"
    /\ calls' = Append(Returned("ok"), Call("createNamespacedDeployment", imageName'))
    /\ console' = console \o << "Docker image pushed", "Deploying to Kubernetes..." >>
    /\ UNCHANGED << action, branch, bBranch, commit, tag, fullImageName, exit,
                    registry, cluster, Env >>

PushRejects ==
    /\ pc = "push"
    /\ BuildCatch

(* ----------------------------- deployToK8s ----------------------------- *)

Existing(d) == {x \in cluster : x.namespace = d.namespace /\ x.name = d.name}

\* the cluster accepts the create request: main resolves
CreateResolves ==
    /\ pc = "deploy"
    /\ LET d == k8sRequests[Len(k8sRequests)].body IN
       /\ Existing(d) = {}
       /\ cluster' = cluster \cup
              {[namespace |-> d.namespace, name |-> d.name, image |-> d.image]}
    /\ pc' = "settled"
    /\ calls' = Returned("ok")
    /\ console' = Append(console, "Deployment created/updated in K8s")
    /\ UNCHANGED << action, procVars, k8sRequests, exit, pushStream, registry, Env >>

\* CreateRejects with the process.exit(1) of the catch left out: deployToK8s
\* resolves and so does main
CreateRejectsSwallowed ==
    /\ pc = "deploy"
    /\ calls' = Returned("failed")
    /\ console' = Append(console, "K8s deployment failed")
    /\ pc' = "settled"
    /\ UNCHANGED << action, procVars, k8sRequests, exit, pushStream, registry,
                    cluster, Env >>

\* the create request fails (always so when the deployment exists): the catch
\* prints and exits 1
CreateRejects ==
    /\ pc = "deploy"
    /\ calls' = Returned("failed")
    /\ console' = Append(console, "K8s deployment failed")
    /\ ProcessExit(1)
    /\ UNCHANGED << action, procVars, k8sRequests, pushStream, registry, cluster, Env >>

(* --------------------------- the environment --------------------------- *)

\* the push the engine started completes: the image is in the registry
PushStreamEnds ==
    /\ pushStream = "streaming"
    /\ pushStream' = "ended"
    /\ registry' = registry \cup {fullImageName}
    /\ UNCHANGED << pc, action, procVars, calls, k8sRequests, console, exit,
                    cluster, Env >>

\* the push the engine started fails
PushStreamErrors ==
    /\ pushStream = "streaming"
    /\ pushStream' = "error"
    /\ UNCHANGED << pc, action, procVars, calls, k8sRequests, console, exit,
                    registry, cluster, Env >>

\* the checkout is changed from outside the process (by the test command,
\* which is any external process, or by anyone else)
CheckoutChanges ==
    /\ pc # "exited"
    /\ switches < MaxCheckoutChanges
    /\ switches' = switches + 1
    /\ checkout' \in [branch : Branches, commit : Commits] \ {checkout}
    /\ UNCHANGED << pc, action, env, procVars, calls, k8sRequests, console, exit,
                    pushStream, registry, cluster, runs >>

\* the next invocation: a fresh process, the same registry and cluster
NewRun ==
    /\ pc = "exited"
    /\ pushStream # "streaming"
    /\ runs < MaxRuns
    /\ runs' = runs + 1
    /\ pc' = "start"
    /\ action' \in Actions
    /\ branch' = Undefined
    /\ bBranch' = Undefined
    /\ commit' = Undefined
    /\ tag' = Undefined
    /\ fullImageName' = Undefined
    /\ imageName' = Undefined
    /\ calls' = << >>
    /\ k8sRequests' = << >>
    /\ console' = << >>
    /\ exit' = << >>
    /\ pushStream' = "none"
    /\ UNCHANGED << env, checkout, switches, registry, cluster >>

Next ==
    \/ EntryPoint
    \/ ProcessEnds
    \/ MainBranchResolves
    \/ MainBranchRejects
    \/ TestPasses
    \/ TestFails
    \/ BuilderBranchResolves
    \/ BuilderBranchRejects
    \/ BuilderLogResolves
    \/ BuilderLogRejects
    \/ BuildImageResolves
    \/ BuildImageRejects
    \/ FollowProgressDone
    \/ FollowProgressError
    \/ PushResolves
    \/ PushRejects
    \/ CreateResolves
    \/ CreateRejects
    \/ PushStreamEnds
    \/ PushStreamErrors
    \/ CheckoutChanges
    \/ NewRun

Spec == Init /\ [][Next]_vars

(* ----------------------- what a run has done so far -------------------- *)

Invoked(op) == \E i \in 1..Len(calls) : calls[i].op = op
Has(op, status) == \E i \in 1..Len(calls) : calls[i].op = op /\ calls[i].status = status

TestInvoked == Invoked("test")
BuildInvoked == Invoked("docker.buildImage")
PushInvoked == Invoked("image.push")
CreateInvoked == Invoked("createNamespacedDeployment")

VcsFailed == Has("git.branch", "failed") \/ Has("git.log", "failed")
TestFailed == Has("test", "failed")
BuildFailed == Has("docker.buildImage", "failed") \/ Has("followProgress", "failed")
PushFailed == Has("image.push", "failed") \/ pushStream = "error"
CreateFailed == Has("createNamespacedDeployment", "failed")

TestSucceeded == Has("test", "ok")
BuildSucceeded == Has("followProgress", "ok")
PushSucceeded == pushStream = "ended"
CreateSucceeded == Has("createNamespacedDeployment", "ok")

TestInProgress == Has("test", "pending")
BuildInProgress == Has("docker.buildImage", "pending") \/ Has("followProgress", "pending")
PushInProgress == Has("image.push", "pending") \/ pushStream = "streaming"
CreateInProgress == Has("createNamespacedDeployment", "pending")

StageOps == {"test", "docker.buildImage", "image.push", "createNamespacedDeployment"}
StageOrder == << "test", "docker.buildImage", "image.push", "createNamespacedDeployment" >>
IsStage(c) == c.op \in StageOps
StagesInvoked == SelectSeq(calls, IsStage)
NoStageInvoked == StagesInvoked = << >>

Exited == pc = "exited"
ExitedWith(code) == pc = "exited" /\ exit = << code >>
GatedProduction == action = "deploy" /\ branch = "production"
SkipPath == Dispatch(action, branch) = "skip" /\ branch # Undefined

(* ------------------------------- claims -------------------------------- *)

\* C1: whenever a run has exited with code 0, no external step of it failed
\* (no branch or commit query, test command, image build, image push or
\* create-deployment call): every failure ends in a non-zero exit code.
C1_FailureExitsNonZero ==
    ExitedWith(0) =>
        ~(VcsFailed \/ TestFailed \/ BuildFailed \/ PushFailed \/ CreateFailed)

\* C2: in a deploy run gated as production the stages are invoked in the order
\* test, build, push, create; a stage is invoked only after every earlier one
\* succeeded; and the run exits 0 only if all four succeeded.
C2_StrictSequence ==
    GatedProduction =>
        /\ Len(StagesInvoked) <= Len(StageOrder)
        /\ \A i \in 1..Len(StagesInvoked) : StagesInvoked[i].op = StageOrder[i]
        /\ BuildInvoked => TestSucceeded
        /\ PushInvoked => TestSucceeded /\ BuildSucceeded
        /\ CreateInvoked => TestSucceeded /\ BuildSucceeded /\ PushSucceeded
        /\ ExitedWith(0) =>
               TestSucceeded /\ BuildSucceeded /\ PushSucceeded /\ CreateSucceeded

\* C3: in a deploy run gated as production, the image the builder builds and
\* pushes is tagged prod-<commit>, <commit> being the commit the version
\* control query returned in that run.
C3_ProdTag ==
    GatedProduction =>
        \A i \in 1..Len(calls) :
            calls[i].op \in {"docker.buildImage", "image.push"} =>
                /\ tag = "prod-" \o commit
                /\ calls[i].arg = FullImageName("prod-" \o commit)

\* C4: at most one stage is in progress at any time; the create-deployment
\* request is never in progress while the image push is.
C4_NoOverlap ==
    /\ ~(TestInProgress /\ BuildInProgress)
    /\ ~(TestInProgress /\ PushInProgress)
    /\ ~(TestInProgress /\ CreateInProgress)
    /\ ~(BuildInProgress /\ PushInProgress)
    /\ ~(BuildInProgress /\ CreateInProgress)
    /\ ~(PushInProgress /\ CreateInProgress)

\* C5: create-deployment is invoked only after the build and the push
\* succeeded, a failed build or push ends the run non-zero, and a deploy run
\* that exited 0 left the image of its deployment in the registry.
C5_DeployOnlyPushedImage ==
    /\ (BuildFailed \/ PushFailed) => ~CreateInvoked
    /\ (Exited /\ (BuildFailed \/ PushFailed)) => exit # << 0 >>
    /\ (ExitedWith(0) /\ CreateSucceeded) =>
           \A i \in 1..Len(k8sRequests) : k8sRequests[i].body.image \in registry

\* C6: in a deploy run whose branch query returned anything but production, no
\* test command, build, push or create-deployment is invoked, the run goes
\* straight to its end, and it exits with code 0.
C6_NonProductionSkips ==
    (action = "deploy" /\ branch \notin {Undefined, "production"}) =>
        /\ NoStageInvoked
        /\ k8sRequests = << >>
        /\ pc \in {"settled", "exited"}
        /\ Exited => exit = << 0 >>

C6_Witness ==
    /\ action = "deploy"
    /\ branch = "feature-x"
    /\ ExitedWith(0)
    /\ console = << "Skipping deployment" >>

\* C7: in a deploy run gated as production whose test command failed, no
\* build, push or create-deployment is ever invoked and the process has exited
\* with code 1.
C7_TestFailureStopsDeploy ==
    (GatedProduction /\ TestFailed) =>
        /\ ~BuildInvoked
        /\ ~PushInvoked
        /\ ~CreateInvoked
        /\ k8sRequests = << >>
        /\ ExitedWith(1)

C7_Witness == GatedProduction /\ TestFailed /\ ExitedWith(1)

\* C8: in a test run, on every branch and for every test outcome, no build,
\* push or create-deployment is invoked, and a failed test command has made
\* the process exit with code 1.
C8_TestRunsOnlyTests ==
    action = "test" =>
        /\ ~BuildInvoked
        /\ ~PushInvoked
        /\ ~CreateInvoked
        /\ k8sRequests = << >>
        /\ TestFailed => ExitedWith(1)

C8_Witness ==
    /\ action = "test"
    /\ branch = "production"
    /\ TestFailed
    /\ ExitedWith(1)

\* C9: a test run exits with code 0 if and only if its test command was run
\* and returned success.
C9_TestExitIffPassed ==
    (action = "test" /\ Exited) => (exit = << 0 >> <=> TestSucceeded)

\* C10: with no action argument the run makes no external call at all (no
\* version-control query, no stage, no cluster request), prints usage and
\* exits with code 1.
C10_MissingActionExitsOne ==
    action = Undefined =>
        /\ calls = << >>
        /\ k8sRequests = << >>
        /\ pc \in {"start", "exited"}
        /\ Exited => (exit = << 1 >> /\ console = << "Usage" >>)

C10_Witness ==
    /\ action = Undefined
    /\ ExitedWith(1)
    /\ console = << "Usage" >>
    /\ calls = << >>

SkipLogged == \E i \in 1..Len(console) : console[i] = "Skipping deployment"

\* C11 as stated: for every present action string other than test and deploy,
\* on every branch, the run invokes no stage, logs the skip message once the
\* branch query has returned, and exits with code 0.
C11_AnyOtherActionSkips ==
    action \notin {Undefined, "test", "deploy"} =>
        /\ NoStageInvoked
        /\ k8sRequests = << >>
        /\ branch # Undefined => (SkipLogged /\ pc \in {"settled", "exited"})
        /\ Exited => exit = << 0 >>

\* C11 amended: the same for every non-empty action string other than test
\* and deploy (the empty string is handled like a missing argument).
C11_NonEmptyOtherActionSkips ==
    action \notin {Undefined, "", "test", "deploy"} =>
        /\ NoStageInvoked
        /\ k8sRequests = << >>
        /\ branch # Undefined => (SkipLogged /\ pc \in {"settled", "exited"})
        /\ Exited => exit = << 0 >>

C11_Witness ==
    /\ action = "build"
    /\ branch = "production"
    /\ SkipLogged
    /\ NoStageInvoked
    /\ ExitedWith(0)

\* C12: every descriptor a run submits to the cluster names, as its image,
\* exactly the reference that the same run passed to the image build and to
\* the image push.
C12_DeploysTheBuiltImage ==
    \A i \in 1..Len(k8sRequests) :
        /\ BuildInvoked
        /\ PushInvoked
        /\ \A j \in 1..Len(calls) :
               calls[j].op \in {"docker.buildImage", "image.push"} =>
                   k8sRequests[i].body.image = calls[j].arg

\* a descriptor was submitted after the checkout had moved on from the commit
\* that was built
C12_Witness ==
    /\ CreateInvoked
    /\ k8sRequests # << >>
    /\ checkout.commit # commit
    /\ runs > 1

\* the image references and descriptors of a run, given the registry and the
\* namespace they are expected to carry
ReferencesAndDescriptorsUse(reg, ns) ==
    /\ \A j \in 1..Len(calls) :
           calls[j].op \in {"docker.buildImage", "image.push"} =>
               /\ calls[j].arg = reg \o "/legal-app:" \o tag
               /\ (reg = "reg.example.com" /\ bBranch = "production" /\ commit = "a1b2c3")
                      => calls[j].arg = "reg.example.com/legal-app:prod-a1b2c3"
    /\ \A i \in 1..Len(k8sRequests) :
           /\ k8sRequests[i].namespace = ns
           /\ k8sRequests[i].body.namespace = ns
           /\ k8sRequests[i].body.replicas = 3
           /\ k8sRequests[i].body.containerPort = 3000

\* C13 as stated: the reference is <registry>/legal-app:<tag> with <registry>
\* = DOCKER_REGISTRY, or your-registry.com when it is unset; the descriptor
\* and the create request carry K8S_NAMESPACE, or default when it is unset,
\* with 3 replicas and container port 3000.
C13_DefaultsWhenUnset ==
    ReferencesAndDescriptorsUse(
        IF env.DOCKER_REGISTRY = Undefined THEN "your-registry.com" ELSE env.DOCKER_REGISTRY,
        IF env.K8S_NAMESPACE = Undefined THEN "default" ELSE env.K8S_NAMESPACE)

\* C13 amended: the defaults apply when the variable is unset or empty.
C13_DefaultsWhenUnsetOrEmpty ==
    ReferencesAndDescriptorsUse(
        IF env.DOCKER_REGISTRY \in {Undefined, ""} THEN "your-registry.com"
                                                   ELSE env.DOCKER_REGISTRY,
        IF env.K8S_NAMESPACE \in {Undefined, ""} THEN "default" ELSE env.K8S_NAMESPACE)

C13_Witness ==
    /\ env.DOCKER_REGISTRY = "reg.example.com"
    /\ env.K8S_NAMESPACE = Undefined
    /\ CreateInvoked
    /\ k8sRequests # << >>
    /\ k8sRequests[1].namespace = "default"
    /\ k8sRequests[1].body.image = "reg.example.com/legal-app:prod-a1b2c3"

\* the create request in flight meets a deployment of the same name and
\* namespace
CreateMeetsExisting ==
    /\ pc = "deploy"
    /\ Existing(k8sRequests[Len(k8sRequests)].body) # {}

OnlyCreateRequests == \A i \in 1..Len(k8sRequests) : k8sRequests[i].verb = "create"

C15_PushAfterBuildStream ==
    /\ PushInvoked => Has("followProgress", "ok")
    /\ Has("followProgress", "failed") =>
           /\ ~PushInvoked
           /\ ~CreateInvoked
           /\ k8sRequests = << >>
           /\ ExitedWith(1)

C15_Witness ==
    /\ Has("docker.buildImage", "ok")
    /\ Has("followProgress", "failed")
    /\ ~PushInvoked
    /\ ExitedWith(1)

Times(op) == Cardinality({i \in 1..Len(calls) : calls[i].op = op})

\* C16: within one run each of the test command, image build, image push and
\* create-deployment is invoked at most once.
C16_EachStageAtMostOnce ==
    /\ \A op \in StageOps : Times(op) <= 1
    /\ Len(k8sRequests) <= 1

\* a run that invoked all four stages, and failed in the last
C16_Witness ==
    /\ \A op \in StageOps : Times(op) = 1
    /\ CreateFailed
    /\ ExitedWith(1)

(* ------------------------------ liveness ------------------------------- *)

\* the call the process awaits returns, with either outcome
CallReturns ==
    \/ MainBranchResolves \/ MainBranchRejects
    \/ TestPasses \/ TestFails
    \/ BuilderBranchResolves \/ BuilderBranchRejects
    \/ BuilderLogResolves \/ BuilderLogRejects
    \/ BuildImageResolves \/ BuildImageRejects
    \/ FollowProgressDone \/ FollowProgressError
    \/ PushResolves \/ PushRejects
    \/ CreateResolves \/ CreateRejects

\* the process runs when it can, and every external call it awaits returns
FairSpec ==
    /\ Spec
    /\ WF_vars(EntryPoint)
    /\ WF_vars(ProcessEnds)
    /\ WF_vars(CallReturns)
    /\ WF_vars(PushStreamEnds \/ PushStreamErrors)

Awaiting == pc \notin {"start", "settled", "exited"}

\* C17: when every awaited external call returns, every run reaches its exit;
\* an exited run has exactly one exit code and a running one has none; and
\* a process that awaits a call moves on only when that call returns (there
\* is no timeout that would end the wait).
C17_TerminatesOnce ==
    /\ (pc # "exited") ~> (pc = "exited")
    /\ [](IF pc = "exited" THEN Len(exit) = 1 ELSE exit = << >>)
    /\ [][(Awaiting /\ pc' # pc) =>
              /\ calls[Len(calls)].status = "pending"
              /\ calls'[Len(calls)].status # "pending"]_vars

\* a run that went through every stage has exited
C17_Witness ==
    /\ CreateSucceeded
    /\ PushSucceeded
    /\ ExitedWith(0)

====
